---- MODULE Spec2Model ----
(***************************************************************************)
(* A model of the MICE imputation engine of fancyimpute (mice.py): the     *)
(* engine object, the process-wide numpy random stream, the regression     *)
(* model object the engine refits in place, and the calls complete(),      *)
(* perform_imputation_round() and complete_row() as step-wise state        *)
(* machines.                                                               *)
(*                                                                         *)
(* Floating point values are exact rationals <<num, den>> with den > 0 in  *)
(* lowest terms; the missing-value sentinel NaN is <<0, 0>>.               *)
(***************************************************************************)
EXTENDS Integers, Sequences, FiniteSets, TLC

(***************************************************************************)
(* Bounds of the model.                                                    *)
(***************************************************************************)
MaxMissing == 2
MaxBurnIn == 1
MaxImputations == 2
MaxCalls == 2

(***************************************************************************)
(* The shape of the input matrix and the values of its observed entries.   *)
(***************************************************************************)
Rows == 0 .. 2
Cols == 0 .. 1
Values == 0 .. 1
NRows == Cardinality(Rows)
NCols == Cardinality(Cols)
Cells == Rows \X Cols

(***************************************************************************)
(* Floats.                                                                 *)
(***************************************************************************)
NaN == <<0, 0>>
R(n) == <<n, 1>>
IsNaN(a) == a[2] = 0
Abs(n) == IF n < 0 THEN -n ELSE n
Min(a, b) == IF a <= b THEN a ELSE b

RECURSIVE GCD(_, _)
GCD(a, b) == IF b = 0 THEN a ELSE GCD(b, a % b)

RNorm(n, d) ==
    IF d = 0 THEN NaN
    ELSE LET g == GCD(Abs(n), d) IN <<n \div g, d \div g>>

RAdd(a, b) ==
    IF IsNaN(a) \/ IsNaN(b) THEN NaN
    ELSE RNorm(a[1] * b[2] + b[1] * a[2], a[2] * b[2])
RSub(a, b) ==
    IF IsNaN(a) \/ IsNaN(b) THEN NaN
    ELSE RNorm(a[1] * b[2] - b[1] * a[2], a[2] * b[2])
RMul(a, b) ==
    IF IsNaN(a) \/ IsNaN(b) THEN NaN
    ELSE RNorm(a[1] * b[1], a[2] * b[2])
\* a / k for a count k; 0 / 0 is NaN, as numpy's mean of an empty slice is
RDivInt(a, k) ==
    IF IsNaN(a) \/ k = 0 THEN NaN ELSE RNorm(a[1], a[2] * k)
\* comparisons with NaN are false
RLt(a, b) == ~IsNaN(a) /\ ~IsNaN(b) /\ a[1] * b[2] < b[1] * a[2]
RLe(a, b) == ~IsNaN(a) /\ ~IsNaN(b) /\ a[1] * b[2] <= b[1] * a[2]
RFloor(a) == a[1] \div a[2]

RECURSIVE RSum(_)
RSum(s) == IF s = <<>> THEN R(0) ELSE RAdd(Head(s), RSum(Tail(s)))

\* np.mean of a 1-d array
RMean(s) == RDivInt(RSum(s), Len(s))

RECURSIVE RInsert(_, _)
RInsert(sorted, x) ==
    IF sorted = <<>> THEN <<x>>
    ELSE IF RLe(Head(sorted), x) THEN <<Head(sorted)>> \o RInsert(Tail(sorted), x)
    ELSE <<x>> \o sorted

RECURSIVE RSort(_)
RSort(s) == IF s = <<>> THEN <<>> ELSE RInsert(RSort(Tail(s)), Head(s))

\* np.median of a non-empty 1-d array
RMedian(s) ==
    LET t == RSort(s)
        n == Len(s)
    IN  IF n % 2 = 1 THEN t[(n + 1) \div 2]
        ELSE RDivInt(RAdd(t[n \div 2], t[n \div 2 + 1]), 2)

(***************************************************************************)
(* Sequences and index helpers.                                            *)
(***************************************************************************)
RECURSIVE SeqOfSet(_)
\* the elements of a finite set of integers in ascending order
SeqOfSet(S) ==
    IF S = {} THEN <<>>
    ELSE LET x == CHOOSE y \in S : \A z \in S : y <= z
         IN  <<x>> \o SeqOfSet(S \ {x})

Range(s) == {s[k] : k \in DOMAIN s}
Reverse(s) == [k \in 1 .. Len(s) |-> s[Len(s) + 1 - k]]

RECURSIVE InsertIdx(_, _, _)
InsertIdx(sorted, i, keys) ==
    IF sorted = <<>> THEN <<i>>
    ELSE IF keys[Head(sorted)] <= keys[i]
         THEN <<Head(sorted)>> \o InsertIdx(Tail(sorted), i, keys)
         ELSE <<i>> \o sorted

RECURSIVE ArgSortUpTo(_, _)
ArgSortUpTo(keys, n) ==
    IF n = 0 THEN <<>> ELSE InsertIdx(ArgSortUpTo(keys, n - 1), n, keys)

\* np.argsort of a short 1-d integer array: 1-based positions, ascending by
\* key, equal keys in ascending position (numpy sorts arrays of fewer than
\* 17 elements by insertion, which is stable)
ArgSort(keys) == ArgSortUpTo(keys, Len(keys))

(***************************************************************************)
(* The process-wide random stream (np.random): one ordered stream shared   *)
(* by every engine of the process.  The generator is a small congruential  *)
(* one; what matters is that each draw is a function of the stream state   *)
(* and advances it.                                                        *)
(***************************************************************************)
RngStates == 0 .. 2
RngMod == Cardinality(RngStates)
RngNext(s) == (s + 1) % RngMod
\* np.random.seed(seed)
RngSeed(seed) == seed % RngMod
\* a standard normal deviate, in units of sigma
RngZ(s) == (s % 3) - 1
\* np.random.choice over k equally likely positions (1-based)
RngIndex(s, k) == (s % k) + 1

RECURSIVE RngAdvance(_, _)
RngAdvance(s, n) == IF n = 0 THEN s ELSE RngAdvance(RngNext(s), n - 1)

(***************************************************************************)
(* Configuration of an engine (the arguments of MICE.__init__).  None is   *)
(* the empty tuple, a set value v is <<v>>.                                *)
(***************************************************************************)
None == <<>>
Some(v) == <<v>>
Infty == 1000000

Config(vs, ni, nb, k, it, ncap, fm, lo, hi, seed) ==
    [visit_sequence |-> vs, n_imputations |-> ni, n_burn_in |-> nb,
     n_pmm_neighbors |-> k, impute_type |-> it, n_nearest_columns |-> ncap,
     fill_method |-> fm, min_value |-> lo, max_value |-> hi, seed |-> seed]

TotalRounds(cfg) == cfg.n_burn_in + cfg.n_imputations

(***************************************************************************)
(* The external collaborators: value clipping (Solver.clip), the input     *)
(* checks (Solver._check_input, Solver._check_missing_value_mask) and the  *)
(* regression model (BayesianRidgeRegression), known through their         *)
(* contracts only.                                                         *)
(***************************************************************************)
clipHigh(cfg, v) ==
    IF cfg.max_value # None /\ RLt(R(cfg.max_value[1]), v)
    THEN R(cfg.max_value[1]) ELSE v

clip(cfg, v) ==
    clipHigh(cfg, IF cfg.min_value # None /\ RLt(v, R(cfg.min_value[1]))
                  THEN R(cfg.min_value[1]) ELSE v)

\* the input is rejected when a row or a column has no observed entry
check_missing_value_mask(missing_mask) ==
    /\ \A r \in Rows : \E c \in Cols : ~missing_mask[<<r, c>>]
    /\ \A c \in Cols : \E r \in Rows : ~missing_mask[<<r, c>>]

RECURSIVE Flatten(_)
Flatten(rows) == IF rows = <<>> THEN <<>> ELSE Head(rows) \o Flatten(Tail(rows))

Unfitted == [fitted |-> FALSE, b0 |-> 0, b1 |-> 0, n |-> 0]

\* fit(X, y): the state of the model object after it, a function of the
\* training data alone
BrrFit(Xo, yo) ==
    [fitted |-> TRUE,
     b0 |-> RFloor(RMean(yo)),
     b1 |-> RFloor(RSum(Flatten(Xo))) % 2,
     n |-> Len(yo)]

BrrMu(fit, row) == fit.b0 + ((fit.b1 + RFloor(RSum(row))) % 2)

\* predict_dist(X): per-row mean and variance
BrrPredictDist(fit, rows) ==
    [mus |-> [k \in 1 .. Len(rows) |-> BrrMu(fit, rows[k])],
     sigmas_squared |-> [k \in 1 .. Len(rows) |-> IF fit.n <= 1 THEN 4 ELSE 1]]

\* predict(X, random_draw): a random draw takes one coefficient sample from
\* the stream s and shifts every prediction by it
BrrPredict(fit, rows, random_draw, s) ==
    [preds |-> [k \in 1 .. Len(rows) |->
                  BrrMu(fit, rows[k]) + (IF random_draw THEN RngZ(s) ELSE 0)],
     rng |-> IF random_draw THEN RngNext(s) ELSE s]

\* np.sqrt of a variance
Sqrt(v) == CHOOSE k \in 0 .. v : k * k = v

(***************************************************************************)
(* Masks and masked access.                                                *)
(***************************************************************************)
\* np.isnan(X)
IsNanMask(X) == [cell \in Cells |-> IsNaN(X[cell])]

\* the rows of column c where the mask has value b, ascending
RowsWhere(mask, c, b) == SeqOfSet({r \in Rows : mask[<<r, c>>] = b})

\* every position in row-major order
CellSeq == [k \in 1 .. (NRows * NCols) |-> <<(k - 1) \div NCols, (k - 1) % NCols>>]

\* the positions a boolean mask selects, in row-major order
MaskedCells(mask) == SelectSeq(CellSeq, LAMBDA cell : mask[cell])

\* X[mask]: a copy of the selected values as a 1-d array
Masked(X, mask) ==
    LET cells == MaskedCells(mask) IN [k \in 1 .. Len(cells) |-> X[cells[k]]]

PositionOf(cells, cell) == CHOOSE k \in 1 .. Len(cells) : cells[k] = cell

\* X[mask] = values, values a 1-d array with one entry per selected position
AssignMasked(X, mask, values) ==
    LET cells == MaskedCells(mask)
    IN  [cell \in Cells |-> IF mask[cell] THEN values[PositionOf(cells, cell)] ELSE X[cell]]

\* a slip of line 391: the scalar is stored everywhere
AssignScalarEverywhere(X, mask, v) == [cell \in Cells |-> v]

\* X[mask] = v, v a scalar broadcast to every selected position
AssignMaskedScalar(X, mask, v) ==
    [cell \in Cells |-> IF mask[cell] THEN v ELSE X[cell]]

\* a slip of line 284: the whole column is overwritten
AssignColumnAllRows(X, rows, c, values) ==
    [cell \in Cells |-> IF cell[2] = c THEN values[1] ELSE X[cell]]

\* X[row_mask, c] = values
AssignColumn(X, rows, c, values) ==
    [cell \in Cells |->
        IF cell[2] = c /\ cell[1] \in Range(rows)
        THEN values[CHOOSE k \in 1 .. Len(rows) : rows[k] = cell[1]]
        ELSE X[cell]]

(***************************************************************************)
(* MICE.get_visit_indices                                                  *)
(***************************************************************************)
VisitSequences == {"roman", "arabic", "monotone", "revmonotone"}

\* missing_mask.sum(0), as a 1-based sequence over the columns
MissingCounts(missing_mask) ==
    [k \in 1 .. NCols |-> Cardinality({r \in Rows : missing_mask[<<r, k - 1>>]})]

\* a slip of line 325: np.arange(n_cols - 1, 0, -1) stops before column 0
get_visit_indices_short(cfg, missing_mask) ==
    LET asc == [k \in 1 .. NCols |-> ArgSort(MissingCounts(missing_mask))[k] - 1]
    IN  CASE cfg.visit_sequence = "roman" ->
               [ok |-> TRUE, v |-> [k \in 1 .. NCols |-> k - 1]]
          [] cfg.visit_sequence = "arabic" ->
               [ok |-> TRUE, v |-> [k \in 1 .. (NCols - 1) |-> NCols - k]]
          [] cfg.visit_sequence = "monotone" ->
               [ok |-> TRUE, v |-> Reverse(asc)]
          [] cfg.visit_sequence = "revmonotone" ->
               [ok |-> TRUE, v |-> asc]
          [] OTHER -> [ok |-> FALSE, v |-> None]

get_visit_indices(cfg, missing_mask) ==
    LET asc == [k \in 1 .. NCols |-> ArgSort(MissingCounts(missing_mask))[k] - 1]
    IN  CASE cfg.visit_sequence = "roman" ->
               [ok |-> TRUE, v |-> [k \in 1 .. NCols |-> k - 1]]
          [] cfg.visit_sequence = "arabic" ->
               [ok |-> TRUE, v |-> [k \in 1 .. NCols |-> NCols - k]]
          [] cfg.visit_sequence = "monotone" ->
               [ok |-> TRUE, v |-> Reverse(asc)]
          [] cfg.visit_sequence = "revmonotone" ->
               [ok |-> TRUE, v |-> asc]
          [] OTHER -> [ok |-> FALSE, v |-> None]

(***************************************************************************)
(* MICE.initialize                                                         *)
(***************************************************************************)
\* np.random.choice(observed_column, n_missing): n_missing draws
RandomFill(observed_column, n_missing, s) ==
    [k \in 1 .. n_missing |->
        observed_column[RngIndex(RngAdvance(s, k - 1), Len(observed_column))]]

\* the body of initialize's loop for one column; acc is the state so far
InitializeColumn(cfg, missing_mask, col_idx, acc) ==
    LET missing_rows == RowsWhere(missing_mask, col_idx, TRUE)
        n_missing == Len(missing_rows)
        observed_rows == RowsWhere(missing_mask, col_idx, FALSE)
        observed_column == [k \in 1 .. Len(observed_rows) |->
                               acc.X_filled[<<observed_rows[k], col_idx>>]]
    IN  IF acc.err # "" \/ n_missing = 0 THEN acc
        ELSE CASE cfg.fill_method = "mean" ->
                    LET fill == RMean(observed_column)
                    IN  [acc EXCEPT !.civ[col_idx] = fill,
                                    !.X_filled = AssignColumn(@, missing_rows, col_idx,
                                                     [k \in 1 .. n_missing |-> fill])]
               [] cfg.fill_method = "median" ->
                    LET fill == RMedian(observed_column)
                    IN  [acc EXCEPT !.civ[col_idx] = fill,
                                    !.X_filled = AssignColumn(@, missing_rows, col_idx,
                                                     [k \in 1 .. n_missing |-> fill])]
               [] cfg.fill_method = "random" ->
                    LET fill == RandomFill(observed_column, n_missing, acc.rng)
                        s2 == RngAdvance(acc.rng, n_missing)
                    IN  \* an array of more than one value cannot be stored in
                        \* the scalar slot column_init_values[col_idx]
                        IF n_missing > 1
                        THEN [acc EXCEPT !.rng = s2, !.err = "ValueError:sequence"]
                        ELSE [acc EXCEPT !.rng = s2, !.civ[col_idx] = fill[1],
                                         !.X_filled = AssignColumn(@, missing_rows,
                                                                   col_idx, fill)]
               [] OTHER -> [acc EXCEPT !.err = "ValueError:fill_method"]

RECURSIVE InitializeUpTo(_, _, _, _, _, _)
InitializeUpTo(cfg, X, missing_mask, visit_indices, s, k) ==
    IF k = 0
    THEN [X_filled |-> X, civ |-> [c \in Cols |-> R(0)], rng |-> s, err |-> ""]
    ELSE InitializeColumn(cfg, missing_mask, visit_indices[k],
             InitializeUpTo(cfg, X, missing_mask, visit_indices, s, k - 1))

\* initialize(X, missing_mask, observed_mask, visit_indices) run on stream
\* state s: the filled copy, self.column_init_values, the stream afterwards,
\* and the error raised, if any
initialize(cfg, X, missing_mask, visit_indices, s) ==
    InitializeUpTo(cfg, X, missing_mask, visit_indices, s, Len(visit_indices))

(***************************************************************************)
(* ColumnNeighborSelector: the predictor columns of a target column.       *)
(***************************************************************************)
ColumnOf(X, c) == [k \in 1 .. NRows |-> X[<<k - 1, c>>]]

\* sum over the rows of (a - mean a)(b - mean b)
CoMoment(X, a, b) ==
    LET ma == RMean(ColumnOf(X, a))
        mb == RMean(ColumnOf(X, b))
    IN  RSum([k \in 1 .. NRows |->
                RMul(RSub(X[<<k - 1, a>>], ma), RSub(X[<<k - 1, b>>], mb))])

\* np.corrcoef(X, rowvar=0)[a, b] squared; NaN when a column is constant
CorrSquared(X, a, b) ==
    LET vab == RMul(CoMoment(X, a, a), CoMoment(X, b, b))
        cab == RMul(CoMoment(X, a, b), CoMoment(X, a, b))
    IN  IF vab[1] = 0 THEN NaN ELSE RNorm(cab[1] * vab[2], cab[2] * vab[1])

RECURSIVE InsertByWeight(_, _, _)
InsertByWeight(sorted, c, w) ==
    IF sorted = <<>> THEN <<c>>
    ELSE IF RLe(w[c], w[Head(sorted)])
         THEN <<Head(sorted)>> \o InsertByWeight(Tail(sorted), c, w)
         ELSE <<c>> \o sorted

RECURSIVE ByWeight(_, _)
\* the columns of cols (ascending) ordered by descending weight
ByWeight(cols, w) ==
    IF cols = <<>> THEN <<>>
    ELSE InsertByWeight(ByWeight(SubSeq(cols, 1, Len(cols) - 1), w), cols[Len(cols)], w)

\* lines 224-239: n columns drawn without replacement with probability
\* proportional to |correlation| + 1e-7, the target's own weight forced to 0.
\* The draw is a function of the weights and of the stream: the candidates
\* in order of weight, rotated by one stream value.
ChooseColumns(corr_source, col_idx, n, s) ==
    LET others == SeqOfSet(Cols \ {col_idx})
        w == [c \in Cols |-> CorrSquared(corr_source, col_idx, c)]
        ranked == ByWeight(others, w)
        shift == RngIndex(s, Len(others)) - 1
    IN  IF \E c \in Cols : IsNaN(w[c])
        THEN [ok |-> FALSE, cols |-> <<>>, rng |-> s]
        ELSE [ok |-> TRUE,
              cols |-> [k \in 1 .. n |-> ranked[((k - 1 + shift) % Len(others)) + 1]],
              rng |-> RngNext(s)]

(***************************************************************************)
(* ConditionalImputer: the sampling step of one column.                    *)
(***************************************************************************)
\* a slip of line 272: the donor's prediction is imputed, not its value
PmmDonorPredictions(preds_missing, preds_observed, column_values_observed, k, s) ==
    [i \in 1 .. Len(preds_missing) |->
        LET D == [j \in 1 .. Len(preds_observed) |->
                     Abs(preds_missing[i] - preds_observed[j])]
            k_nearest_indices == SubSeq(ArgSort(D), 1, k)
        IN  R(preds_observed[
                k_nearest_indices[RngIndex(RngAdvance(s, i - 1), k)]])]

\* lines 261-272: for each missing row the observed value of a donor drawn
\* among the k observed rows with the nearest predictions
PmmDonorValues(preds_missing, preds_observed, column_values_observed, k, s) ==
    [i \in 1 .. Len(preds_missing) |->
        LET D == [j \in 1 .. Len(preds_observed) |->
                     Abs(preds_missing[i] - preds_observed[j])]
            k_nearest_indices == SubSeq(ArgSort(D), 1, k)
        IN  column_values_observed[
                k_nearest_indices[RngIndex(RngAdvance(s, i - 1), k)]]]

\* lines 252-272
ImputePmm(cfg, fit, X_missing, X_observed, column_values_observed, s) ==
    LET pm == BrrPredict(fit, X_missing, TRUE, s)
        po == BrrPredict(fit, X_observed, FALSE, pm.rng)
        k == Min(cfg.n_pmm_neighbors, Len(po.preds) - 1)
    IN  IF k <= 0
        THEN \* np.random.choice of an empty neighbour list
             [err |-> "ValueError:choice", values |-> <<>>, rng |-> pm.rng]
        ELSE [err |-> "",
              values |-> PmmDonorValues(pm.preds, po.preds, column_values_observed,
                                        k, pm.rng),
              rng |-> RngAdvance(pm.rng, Len(X_missing))]

\* lines 273-282, and 482-488 for a single row: np.random.normal(mus, sigmas)
ImputeCol(fit, X_missing, s) ==
    LET d == BrrPredictDist(fit, X_missing)
    IN  [err |-> "",
         values |-> [i \in 1 .. Len(X_missing) |->
                        R(d.mus[i] + Sqrt(d.sigmas_squared[i])
                                       * RngZ(RngAdvance(s, i - 1)))],
         rng |-> RngAdvance(s, Len(X_missing))]

\* lines 252-283: the imputed values of one column, clipped
ImputeValues(cfg, fit, X_missing, X_observed, column_values_observed, s) ==
    LET raw == CASE cfg.impute_type = "pmm" ->
                      ImputePmm(cfg, fit, X_missing, X_observed,
                                column_values_observed, s)
                 [] cfg.impute_type = "col" -> ImputeCol(fit, X_missing, s)
                 [] OTHER -> \* imputed_values is never bound
                      [err |-> "UnboundLocalError", values |-> <<>>, rng |-> s]
    IN  [raw EXCEPT !.values = [i \in 1 .. Len(@) |-> clip(cfg, @[i])]]

(***************************************************************************)
(* State.                                                                  *)
(*   rng      the state of the process-wide stream np.random               *)
(*   models   the regression model objects by identity; object 0 is the    *)
(*            instance created once as the default argument of __init__    *)
(*   engines  the MICE objects by identity                                 *)
(*   frames   per thread, the call in progress and its local variables     *)
(*            fit_log (history) is what the latest training run fitted at  *)
(*            each (round, column): the fit and its predictor columns      *)
(*            frames also hold history: X0 the matrix after the initial    *)
(*            fill, events the columns fitted and resampled so far with    *)
(*            the matrix each fit read, reads the slots that               *)
(*            complete_row invoked with the columns it handed them         *)
(*   seeder   the engine whose construction seeded the stream, while       *)
(*            nothing has used the stream since (0: none)                  *)
(*   log      the complete() calls that returned                           *)
(***************************************************************************)
VARIABLES rng, models, engines, frames, seeder, log

vars == <<rng, models, engines, frames, seeder, log>>

DefaultModel == 0
ModelIds == {DefaultModel}

NoArray == [none |-> TRUE, v |-> <<>>]
Array(v) == [none |-> FALSE, v |-> v]

\* every (round, column) pair a configuration of the model can have
Slots == (0 .. (MaxBurnIn + MaxImputations - 1)) \X Cols

\* what a run recorded about slot (m, c): nothing yet
NoFit == [assigned |-> FALSE, fit |-> Unfitted, cols |-> <<>>]

NoFitLog == [slot \in Slots |-> NoFit]

NoEngine ==
    [alive |-> FALSE, cfg |-> <<>>, model |-> DefaultModel,
     fitted_models |-> NoArray, visit_indices |-> None,
     column_init_values |-> NoArray, fit_log |-> NoFitLog]

IdleFrame ==
    [pc |-> "idle", op |-> "", e |-> 0, X |-> <<>>, X_completed |-> <<>>,
     X_filled |-> <<>>, missing_mask |-> <<>>, visit_indices |-> <<>>,
     fitted_models |-> NoArray, m |-> 0, i |-> 0, results_list |-> <<>>,
     corr |-> <<>>, result |-> <<>>, err |-> "", hist |-> <<>>, fresh |-> FALSE,
     invoked |-> 0, rng0 |-> 0, self0 |-> NoEngine, models0 |-> <<>>,
     X0 |-> <<>>, events |-> <<>>, reads |-> {}, ncalls |-> 0]

\* the process before any engine is constructed, with engine identities E
\* and threads T; the stream is in any state
InitWith(E, T) ==
    /\ rng \in RngStates
    /\ models = [id \in ModelIds |-> Unfitted]
    /\ engines = [e \in E |-> NoEngine]
    /\ frames = [t \in T |-> IdleFrame]
    /\ seeder = 0
    /\ log = {}

Init == InitWith({1}, {1})

\* no call is in progress on thread t
Returned(t) == frames[t].pc \in {"idle", "done", "error"}

(***************************************************************************)
(* MICE.__init__                                                           *)
(***************************************************************************)
\* a slip of lines 180-181: the seed is stored and never applied
SeedNotApplied(cfg, s) == s

\* lines 179-181: a seed given to the constructor seeds the process-wide stream
SeedOnInit(cfg, s) == IF cfg.seed # None THEN RngSeed(cfg.seed[1]) ELSE s

New(e, cfg) ==
    /\ ~engines[e].alive
    /\ engines' = [engines EXCEPT ![e] =
                      [alive |-> TRUE, cfg |-> cfg, model |-> DefaultModel,
                       fitted_models |-> NoArray, visit_indices |-> None,
                       column_init_values |-> NoArray, fit_log |-> NoFitLog]]
    /\ rng' = SeedOnInit(cfg, rng)
    /\ seeder' = IF cfg.seed # None THEN e ELSE seeder
    /\ UNCHANGED <<models, frames, log>>

(***************************************************************************)
(* MICE.complete up to the first round: the model slots, the copy of X,    *)
(* and multiple_imputations' checks, visit order and initial fill.         *)
(***************************************************************************)
\* lines 384-386: one slot per round and column, each holding self.model
FreshSlots(cfg, model) ==
    Array([slot \in (0 .. (TotalRounds(cfg) - 1)) \X Cols |-> model])

\* the frame of a call that starts on thread t
Enter(t, op, e, X) ==
    [IdleFrame EXCEPT !.op = op, !.e = e, !.X = X, !.rng0 = rng,
                      !.self0 = engines[e], !.models0 = models,
                      !.ncalls = frames[t].ncalls + 1,
                      !.fresh = (seeder = e)]

Raise(f, err) == [f EXCEPT !.pc = "error", !.err = err]

\* the calls that run the imputation rounds
RoundOps == {"complete", "multiple_imputations"}

\* complete (lines 381-387) followed by multiple_imputations up to the first
\* round (lines 342-362), or multiple_imputations called on its own
StartCall(t, e, X, op) ==
    LET self == engines[e]
        cfg == self.cfg
        stored == IF op = "complete"
                  THEN [self EXCEPT !.fitted_models = FreshSlots(cfg, self.model),
                                    !.fit_log = NoFitLog]
                  ELSE self
        missing_mask == IsNanMask(X)
        visit == get_visit_indices(cfg, missing_mask)
        init == initialize(cfg, X, missing_mask, visit.v, rng)
        f == [Enter(t, op, e, X) EXCEPT
                !.X_completed = IF op = "complete" THEN X ELSE <<>>,
                !.missing_mask = missing_mask]
    IN  /\ Returned(t)
        /\ frames[t].ncalls < MaxCalls
        /\ self.alive
        /\ seeder' = 0
        /\ UNCHANGED <<models, log>>
        /\ IF ~check_missing_value_mask(missing_mask)
           THEN /\ frames' = [frames EXCEPT ![t] = Raise(f, "InputError")]
                /\ engines' = [engines EXCEPT ![e] = stored]
                /\ rng' = rng
           ELSE IF ~visit.ok
           THEN /\ frames' = [frames EXCEPT ![t] = Raise(f, "ValueError:visit_sequence")]
                /\ engines' = [engines EXCEPT ![e] = stored]
                /\ rng' = rng
           ELSE /\ engines' = [engines EXCEPT ![e] =
                                 [stored EXCEPT
                                    !.visit_indices = visit.v,
                                    !.column_init_values = Array(init.civ)]]
                /\ rng' = init.rng
                /\ frames' = [frames EXCEPT ![t] =
                     IF init.err # "" THEN Raise(f, init.err)
                     ELSE [f EXCEPT !.pc = "rounds", !.visit_indices = visit.v,
                                    !.X_filled = init.X_filled, !.m = 0, !.i = 0,
                                    !.results_list = <<>>, !.X0 = init.X_filled]]

CompleteCall(t, e, X) == StartCall(t, e, X, "complete")

\* multiple_imputations called directly: self.fitted_models is what it was
MultipleImputationsCall(t, e, X) == StartCall(t, e, X, "multiple_imputations")

(***************************************************************************)
(* MICE.perform_imputation_round, one step per column.                     *)
(***************************************************************************)
\* lines 364-376 and 196-205: the next round starts; the correlation matrix
\* is taken from the matrix as it stands now
BeginRound(t) ==
    LET f == frames[t]
        cfg == engines[f.e].cfg
    IN  /\ f.pc = "rounds" /\ f.op \in RoundOps
        /\ f.i = 0
        /\ f.m < TotalRounds(cfg)
        /\ frames' = [frames EXCEPT ![t].i = 1,
                                    ![t].corr = IF NCols > cfg.n_nearest_columns
                                                THEN f.X_filled ELSE <<>>]
        /\ UNCHANGED <<rng, models, engines, seeder, log>>

\* lines 216-240: the predictor columns of col_idx
OtherColumns(cfg, corr, col_idx, s) ==
    IF NCols <= cfg.n_nearest_columns
    THEN [ok |-> TRUE, cols |-> SeqOfSet(Cols \ {col_idx}), rng |-> s]
    ELSE ChooseColumns(corr, col_idx, cfg.n_nearest_columns, s)

\* X[np.ix_(rows, cols)]
SubMatrix(X, rows, cols) ==
    [k \in 1 .. Len(rows) |-> [j \in 1 .. Len(cols) |-> X[<<rows[k], cols[j]>>]]]

\* a slip of lines 213 and 240: the columns are read as the previous round
\* left them
RoundStartMatrix(f) == IF f.m = 0 THEN f.X0 ELSE f.hist[f.m]

\* lines 213 and 240: a column is fitted on X_filled as it stands, the
\* columns already visited in this round included
WorkingMatrix(f) == f.X_filled

\* a slip of line 227: the correlations are taken anew at each visit
CurrentCorrelations(f) == f.X_filled

\* line 227: the weights of a column are a row of the correlation matrix
\* made before the loop over the columns (198-202)
RoundCorrelations(f) == f.corr

\* lines 207-284 for the column at position f.i of the visit order
ImputeColumn(t) ==
    LET f == frames[t]
        self == engines[f.e]
        cfg == self.cfg
        col_idx == f.visit_indices[f.i]
        missing_rows == RowsWhere(f.missing_mask, col_idx, TRUE)
        observed_rows == RowsWhere(f.missing_mask, col_idx, FALSE)
        X_filled == WorkingMatrix(f)
        column_values_observed ==
            [k \in 1 .. Len(observed_rows) |-> X_filled[<<observed_rows[k], col_idx>>]]
        other == OtherColumns(cfg, RoundCorrelations(f), col_idx, rng)
        X_observed == SubMatrix(X_filled, observed_rows, other.cols)
        X_missing == SubMatrix(X_filled, missing_rows, other.cols)
        fit == BrrFit(X_observed, column_values_observed)
        imp == ImputeValues(cfg, fit, X_missing, X_observed,
                            column_values_observed, other.rng)
    IN  /\ f.pc = "rounds" /\ f.op \in RoundOps
        /\ f.i \in 1 .. Len(f.visit_indices)
        /\ seeder' = 0
        /\ UNCHANGED log
        /\ IF Len(missing_rows) = 0
           THEN /\ frames' = [frames EXCEPT ![t].i = f.i + 1]
                /\ UNCHANGED <<rng, models, engines>>
           ELSE IF ~other.ok
           THEN /\ frames' = [frames EXCEPT ![t] = Raise(f, "ValueError:probabilities")]
                /\ UNCHANGED <<rng, models, engines>>
           ELSE /\ models' = [models EXCEPT ![self.model] = fit]
                /\ IF self.fitted_models.none
                   THEN /\ frames' = [frames EXCEPT ![t] =
                                Raise([f EXCEPT !.invoked = @ + 1], "TypeError:fitted_models")]
                        /\ rng' = other.rng
                        /\ UNCHANGED engines
                   ELSE /\ engines' = [engines EXCEPT
                              ![f.e].fitted_models.v[<<f.m, col_idx>>] = self.model,
                              ![f.e].fit_log[<<f.m, col_idx>>] =
                                  [assigned |-> TRUE, fit |-> fit, cols |-> other.cols]]
                        /\ rng' = imp.rng
                        /\ frames' = [frames EXCEPT ![t] =
                             IF imp.err # ""
                             THEN Raise([f EXCEPT !.invoked = @ + 1], imp.err)
                             ELSE LET after == AssignColumn(f.X_filled, missing_rows,
                                                           col_idx, imp.values)
                                  IN  [f EXCEPT
                                         !.i = f.i + 1, !.invoked = @ + 1,
                                         !.X_filled = after,
                                         !.events = Append(@,
                                             [m |-> f.m, col |-> col_idx,
                                              before |-> X_filled,
                                              corr |-> RoundCorrelations(f)])]]

\* a slip of line 377: the burn-in rounds are kept too
KeepSampleAlways(cfg, m) == m >= 0

\* lines 377 and 492: the values of round m are kept once burn-in is over
KeepSample(cfg, m) == m >= cfg.n_burn_in

\* lines 285 and 377-378: the round ends; past burn-in its values are kept
EndRound(t) ==
    LET f == frames[t]
        cfg == engines[f.e].cfg
    IN  /\ f.pc = "rounds" /\ f.op \in RoundOps
        /\ f.i = Len(f.visit_indices) + 1
        /\ frames' = [frames EXCEPT
                        ![t].m = f.m + 1, ![t].i = 0,
                        ![t].hist = Append(@, f.X_filled),
                        ![t].results_list =
                            IF KeepSample(cfg, f.m)
                            THEN Append(@, Masked(f.X_filled, f.missing_mask))
                            ELSE @]
        /\ UNCHANGED <<rng, models, engines, seeder, log>>

(***************************************************************************)
(* ImputationAggregator: MICE.complete, lines 388-392.                     *)
(***************************************************************************)
\* imputed_arrays.mean(axis=0); no array at all gives the scalar NaN
MeanAxis0(imputed_arrays, n) ==
    [k \in 1 .. n |->
        RMean([j \in 1 .. Len(imputed_arrays) |-> imputed_arrays[j][k]])]

Aggregate(X_completed, missing_mask, results_list) ==
    IF results_list = <<>>
    THEN AssignMaskedScalar(X_completed, missing_mask, NaN)
    ELSE AssignMasked(X_completed, missing_mask,
                      MeanAxis0(results_list, Len(MaskedCells(missing_mask))))

Finish(t) ==
    LET f == frames[t]
        cfg == engines[f.e].cfg
        out == Aggregate(f.X_completed, f.missing_mask, f.results_list)
    IN  /\ f.pc = "rounds" /\ f.op = "complete"
        /\ f.i = 0
        /\ f.m = TotalRounds(cfg)
        /\ frames' = [frames EXCEPT ![t].pc = "done", ![t].result = out]
        /\ log' = log \cup {[e |-> f.e, n |-> f.ncalls, cfg |-> cfg, X |-> f.X,
                             out |-> out, fresh |-> f.fresh]}
        /\ UNCHANGED <<rng, models, engines, seeder>>

\* line 379: multiple_imputations, called directly, returns the kept
\* snapshots and the mask
MultipleImputationsReturn(t) ==
    LET f == frames[t]
        cfg == engines[f.e].cfg
    IN  /\ f.pc = "rounds" /\ f.op = "multiple_imputations"
        /\ f.i = 0
        /\ f.m = TotalRounds(cfg)
        /\ frames' = [frames EXCEPT
                        ![t].pc = "done",
                        ![t].result = [imputed_arrays |-> f.results_list,
                                       missing_mask |-> f.missing_mask]]
        /\ UNCHANGED <<rng, models, engines, seeder, log>>

(***************************************************************************)
(* MICE.complete_row.  The argument X is [ndim, v]: v the entries of a     *)
(* 1-d array (1-based), ndim the number of its dimensions.                 *)
(***************************************************************************)
\* fitted_models.shape[1]; an array of no rounds has one dimension only
HasColumns(arr) == \E slot \in DOMAIN arr.v : TRUE
NumColumns(arr) == Cardinality({slot[2] : slot \in DOMAIN arr.v})

\* a slip of lines 430-431: the impute type is not checked
RowChecksAnyType(self, X, fitted_models) ==
    IF fitted_models.none THEN "Exception:no fitted models"
    ELSE IF X.ndim # 1 THEN "Exception:not row-like"
    ELSE IF self.fitted_models.none THEN "AttributeError:shape"
    ELSE IF ~HasColumns(self.fitted_models) THEN "IndexError:shape"
    ELSE IF Len(X.v) # NumColumns(self.fitted_models) THEN "Exception:incorrect length"
    ELSE ""

\* lines 413-431: the error the checks end in, "" if none
RowChecks(self, X, fitted_models) ==
    IF fitted_models.none THEN "Exception:no fitted models"
    ELSE IF X.ndim # 1 THEN "Exception:not row-like"
    ELSE IF self.fitted_models.none THEN "AttributeError:shape"
    ELSE IF ~HasColumns(self.fitted_models) THEN "IndexError:shape"
    ELSE IF Len(X.v) # NumColumns(self.fitted_models) THEN "Exception:incorrect length"
    ELSE IF self.cfg.impute_type # "col" THEN "Exception:impute_type"
    ELSE ""

\* a slip of line 435: every entry counts as missing
RowMissingMaskAll(v) == [k \in 1 .. Len(v) |-> TRUE]

\* line 435: np.isnan(X_filled)
RowMissingMask(v) == [k \in 1 .. Len(v) |-> IsNaN(v[k])]

\* lines 452-455: the missing entries start from the stored column values
RowInitialize(self, X_filled, missing_mask) ==
    [k \in 1 .. Len(X_filled) |->
        IF missing_mask[k] /\ (k - 1) \in Range(self.visit_indices)
        THEN self.column_init_values.v[k - 1] ELSE X_filled[k]]

RowCall(t, e, X, fitted_models_arg, seed_arg) ==
    LET self == engines[e]
        cfg == self.cfg
        fitted_models == IF fitted_models_arg.none THEN self.fitted_models
                         ELSE fitted_models_arg
        err == RowChecks(self, X, fitted_models)
        missing_mask == RowMissingMask(X.v)
        n_missing == Cardinality({k \in 1 .. Len(X.v) : missing_mask[k]})
        seed == IF seed_arg = None THEN cfg.seed ELSE seed_arg
        f == [Enter(t, "complete_row", e, X) EXCEPT !.fitted_models = fitted_models]
    IN  /\ Returned(t)
        /\ frames[t].ncalls < MaxCalls
        /\ self.alive
        /\ UNCHANGED <<models, engines, log>>
        /\ IF err # ""
           THEN /\ frames' = [frames EXCEPT ![t] = Raise(f, err)]
                /\ UNCHANGED <<rng, seeder>>
           ELSE IF n_missing = 0
           THEN /\ frames' = [frames EXCEPT ![t] = [f EXCEPT !.pc = "done", !.result = X.v]]
                /\ UNCHANGED <<rng, seeder>>
           ELSE IF self.visit_indices = None
           THEN /\ frames' = [frames EXCEPT ![t] = Raise(f, "Exception:no visit indices")]
                /\ UNCHANGED <<rng, seeder>>
           ELSE IF self.column_init_values.none
           THEN /\ frames' = [frames EXCEPT ![t] = Raise(f, "Exception:no initial values")]
                /\ UNCHANGED <<rng, seeder>>
           ELSE /\ rng' = IF seed # None THEN RngSeed(seed[1]) ELSE rng
                /\ seeder' = 0
                /\ frames' = [frames EXCEPT ![t] =
                     [f EXCEPT !.pc = "rounds", !.missing_mask = missing_mask,
                               !.X_filled = RowInitialize(self, X.v, missing_mask),
                               !.m = 0, !.i = 1, !.results_list = <<>>]]

\* lines 470-490 for the column at position f.i of the stored visit order
RowColumn(t) ==
    LET f == frames[t]
        self == engines[f.e]
        cfg == self.cfg
        col_idx == self.visit_indices[f.i]
        others == SeqOfSet((0 .. (Len(f.X_filled) - 1)) \ {col_idx})
        X_other_cols == [j \in 1 .. Len(others) |-> f.X_filled[others[j] + 1]]
        slot == <<f.m, col_idx>>
        fit == models[f.fitted_models.v[slot]]
        imp == ImputeCol(fit, <<X_other_cols>>, rng)
        read == [slot |-> slot, cols |-> others]
    IN  /\ f.pc = "rounds" /\ f.op = "complete_row"
        /\ f.m < TotalRounds(cfg)
        /\ f.i \in 1 .. Len(self.visit_indices)
        /\ seeder' = 0
        /\ UNCHANGED <<models, engines, log>>
        /\ IF ~f.missing_mask[col_idx + 1]
           THEN /\ frames' = [frames EXCEPT ![t].i = f.i + 1]
                /\ rng' = rng
           ELSE IF slot \notin DOMAIN f.fitted_models.v
           THEN /\ frames' = [frames EXCEPT ![t] = Raise(f, "IndexError:fitted_models")]
                /\ rng' = rng
           ELSE IF ~fit.fitted
           THEN /\ frames' = [frames EXCEPT ![t] =
                        Raise([f EXCEPT !.invoked = @ + 1, !.reads = @ \cup {read}],
                              "AttributeError:unfitted")]
                /\ rng' = rng
           ELSE /\ rng' = imp.rng
                /\ frames' = [frames EXCEPT ![t] =
                     [f EXCEPT !.i = f.i + 1, !.invoked = @ + 1,
                               !.reads = @ \cup {read},
                               !.X_filled[col_idx + 1] = clip(cfg, imp.values[1])]]

\* X[mask] of 1-d arrays
MaskedRow(X, mask) ==
    LET idx == SeqOfSet({k \in 1 .. Len(X) : mask[k]})
    IN  [k \in 1 .. Len(idx) |-> X[idx[k]]]

\* lines 491-493
RowEndRound(t) ==
    LET f == frames[t]
        self == engines[f.e]
        cfg == self.cfg
    IN  /\ f.pc = "rounds" /\ f.op = "complete_row"
        /\ f.m < TotalRounds(cfg)
        /\ f.i = Len(self.visit_indices) + 1
        /\ frames' = [frames EXCEPT
                        ![t].m = f.m + 1, ![t].i = 1,
                        ![t].hist = Append(@, f.X_filled),
                        ![t].results_list =
                            IF KeepSample(cfg, f.m)
                            THEN Append(@, MaskedRow(f.X_filled, f.missing_mask))
                            ELSE @]
        /\ UNCHANGED <<rng, models, engines, seeder, log>>

\* lines 496-501
RowAggregate(X, missing_mask, results_list) ==
    LET idx == SeqOfSet({k \in 1 .. Len(X) : missing_mask[k]})
        avg == MeanAxis0(results_list, Len(idx))
    IN  [k \in 1 .. Len(X) |->
            IF ~missing_mask[k] THEN X[k]
            ELSE IF results_list = <<>> THEN NaN
            ELSE avg[CHOOSE j \in 1 .. Len(idx) : idx[j] = k]]

RowFinish(t) ==
    LET f == frames[t]
        cfg == engines[f.e].cfg
    IN  /\ f.pc = "rounds" /\ f.op = "complete_row"
        /\ f.m = TotalRounds(cfg)
        /\ frames' = [frames EXCEPT
                        ![t].pc = "done",
                        ![t].result = RowAggregate(f.X.v, f.missing_mask, f.results_list)]
        /\ UNCHANGED <<rng, models, engines, seeder, log>>

(***************************************************************************)
(* Inputs.                                                                 *)
(***************************************************************************)
\* fully observed matrices with entries in Values
BaseMatrices ==
    {[cell \in Cells |-> R((cell[1] + a * cell[2]) % Cardinality(Values))] :
        a \in Values}

MissingSets == {M \in SUBSET Cells : Cardinality(M) <= MaxMissing}

\* the input matrices: a base matrix with up to MaxMissing entries missing
Inputs ==
    {[cell \in Cells |-> IF cell \in M THEN NaN ELSE B[cell]] :
        B \in BaseMatrices, M \in MissingSets}

(***************************************************************************)
(* Spec: one engine, one thread, one complete() call; every visit          *)
(* sequence, both sampling modes, every number of rounds.                  *)
(***************************************************************************)
CoreConfigs ==
    {Config(vs, ni, nb, 2, it, Infty, "mean", None, None, None) :
        vs \in VisitSequences, ni \in 0 .. MaxImputations,
        nb \in 0 .. MaxBurnIn, it \in {"col", "pmm"}}

CoreNew == \E cfg \in CoreConfigs : New(1, cfg)
CoreComplete == frames[1].pc = "idle" /\ \E X \in Inputs : CompleteCall(1, 1, X)

Next ==
    \/ CoreNew
    \/ CoreComplete
    \/ BeginRound(1)
    \/ ImputeColumn(1)
    \/ EndRound(1)
    \/ Finish(1)

Spec == Init /\ [][Next]_vars

(***************************************************************************)
(* Properties of complete().                                               *)
(***************************************************************************)
\* the frame of thread t is a complete() call at control point pc
InComplete(t, pc) == frames[t].op = "complete" /\ frames[t].pc = pc

MissingCells(X) == {cell \in Cells : IsNaN(X[cell])}

\* C1: while complete() runs, after the initial fill, every observed cell of
\* the working matrix equals the input cell, and so does every observed cell
\* of the matrix complete() returns.
C1_ObservedCellsKept ==
    \A t \in DOMAIN frames :
        LET f == frames[t]
        IN  /\ InComplete(t, "rounds") =>
                 \A cell \in Cells \ MissingCells(f.X) : f.X_filled[cell] = f.X[cell]
            /\ InComplete(t, "done") =>
                 \A cell \in Cells \ MissingCells(f.X) : f.result[cell] = f.X[cell]

\* a complete() call returned after two or more rounds on a matrix with a
\* missing entry in every column, the imputed entries now holding values
C1_Witness ==
    \E t \in DOMAIN frames :
        LET f == frames[t]
        IN  /\ InComplete(t, "done")
            /\ Len(f.hist) >= 2
            /\ \A c \in Cols : \E r \in Rows : IsNaN(f.X[<<r, c>>])
            /\ \A cell \in MissingCells(f.X) : ~IsNaN(f.result[cell])

\* C2: the matrix complete() returns has the shape of the input and holds
\* the missing-value sentinel nowhere.
C2_OutputFullyPopulated ==
    \A t \in DOMAIN frames :
        LET f == frames[t]
        IN  InComplete(t, "done") =>
                /\ DOMAIN f.result = DOMAIN f.X
                /\ \A cell \in Cells : ~IsNaN(f.result[cell])

\* C3: at each missing position the matrix complete() returns holds the mean
\* of the values that position had at the end of the rounds
\* n_burn_in .. n_burn_in + n_imputations - 1, and of no other values (the
\* mean of no value at all being NaN).
C3_MeanOfSampledRounds ==
    \A t \in DOMAIN frames :
        LET f == frames[t]
            cfg == engines[f.e].cfg
        IN  InComplete(t, "done") =>
                \A cell \in MissingCells(f.X) :
                    f.result[cell] =
                        RMean([j \in 1 .. cfg.n_imputations |->
                                  f.hist[cfg.n_burn_in + j][cell]])

\* a call with burn-in and two sampled rounds returned; at some missing
\* position the two sampled values differ and the burn-in value is not
\* their mean
C3_Witness ==
    \E t \in DOMAIN frames :
        LET f == frames[t]
            cfg == engines[f.e].cfg
        IN  /\ InComplete(t, "done")
            /\ cfg.n_burn_in >= 1 /\ cfg.n_imputations >= 2
            /\ \E cell \in MissingCells(f.X) :
                  /\ f.hist[cfg.n_burn_in + 1][cell] # f.hist[cfg.n_burn_in + 2][cell]
                  /\ f.hist[1][cell] # f.result[cell]

IsPermutation(v) == Len(v) = NCols /\ Range(v) = Cols

\* C8: for each of the four strategies the visit order is a permutation of
\* all column indices, and the order in use at any point of a run is the one
\* computed (and stored) when the run started.
C8_VisitOrderPermutation ==
    \A t \in DOMAIN frames :
        LET f == frames[t]
        IN  (InComplete(t, "rounds") \/ InComplete(t, "done")) =>
                /\ engines[f.e].cfg.visit_sequence \in VisitSequences
                /\ IsPermutation(f.visit_indices)
                /\ f.visit_indices = engines[f.e].visit_indices

\* a run under the monotone strategy is past its first round on a matrix
\* whose columns have different numbers of missing entries, the column with
\* more of them first
C8_Witness ==
    \E t \in DOMAIN frames :
        LET f == frames[t]
            n == MissingCounts(f.missing_mask)
        IN  /\ InComplete(t, "rounds")
            /\ f.m >= 1
            /\ engines[f.e].cfg.visit_sequence = "monotone"
            /\ n[f.visit_indices[1] + 1] > n[f.visit_indices[2] + 1]
            /\ f.visit_indices[1] > f.visit_indices[2]

(***************************************************************************)
(* SpecClip: one engine, one complete() call, under the monotone strategy  *)
(* with and without min_value / max_value.                                 *)
(***************************************************************************)
ClipRanges ==
    {<<None, None>>} \cup
    {<<Some(ab[1]), Some(ab[2])>> :
        ab \in {ab \in Values \X Values : ab[1] <= ab[2]}}

ClipConfigs ==
    {Config("monotone", ni, nb, 2, it, Infty, "mean", range[1], range[2], None) :
        ni \in 0 .. MaxImputations, nb \in 0 .. MaxBurnIn,
        it \in {"col", "pmm"}, range \in ClipRanges}

ClipNew == \E cfg \in ClipConfigs : New(1, cfg)
ClipComplete == frames[1].pc = "idle" /\ \E X \in Inputs : CompleteCall(1, 1, X)

NextClip ==
    \/ ClipNew
    \/ ClipComplete
    \/ BeginRound(1)
    \/ ImputeColumn(1)
    \/ EndRound(1)
    \/ Finish(1)

SpecClip == Init /\ [][NextClip]_vars

\* the originally observed values of column c
ObservedValues(X, c) == {X[<<r, c>>] : r \in {r \in Rows : ~IsNaN(X[<<r, c>>])}}

\* the columns of the run of frame f that a round has written so far
WrittenColumns(f) ==
    {c \in Cols : /\ \E r \in Rows : f.missing_mask[<<r, c>>]
                  /\ \/ f.m >= 1
                     \/ \E k \in 1 .. Len(f.visit_indices) :
                            k < f.i /\ f.visit_indices[k] = c}

\* C5 as claimed: under pmm every value a round wrote into a missing cell of
\* column c is one of the originally observed values of column c, whatever
\* min_value / max_value are.
C5_PmmValueObserved ==
    \A t \in DOMAIN frames :
        LET f == frames[t]
        IN  (InComplete(t, "rounds") /\ engines[f.e].cfg.impute_type = "pmm") =>
                \A c \in WrittenColumns(f) : \A r \in Rows :
                    f.missing_mask[<<r, c>>] =>
                        f.X_filled[<<r, c>>] \in ObservedValues(f.X, c)

\* C5 as amended: under pmm every value a round wrote into a missing cell of
\* column c is the clipped value of one of the originally observed values of
\* column c.
C5_PmmValueClippedObserved ==
    \A t \in DOMAIN frames :
        LET f == frames[t]
            cfg == engines[f.e].cfg
        IN  (InComplete(t, "rounds") /\ cfg.impute_type = "pmm") =>
                \A c \in WrittenColumns(f) : \A r \in Rows :
                    f.missing_mask[<<r, c>>] =>
                        f.X_filled[<<r, c>>] \in
                            {clip(cfg, v) : v \in ObservedValues(f.X, c)}

\* a pmm run with min_value and max_value set has written a donor's value
\* that the bounds moved away from every observed value of the column
C5_Witness ==
    \E t \in DOMAIN frames :
        LET f == frames[t]
            cfg == engines[f.e].cfg
        IN  /\ InComplete(t, "rounds") /\ cfg.impute_type = "pmm"
            /\ cfg.min_value # None /\ cfg.max_value # None
            /\ \E c \in WrittenColumns(f) : \E r \in Rows :
                  /\ f.missing_mask[<<r, c>>]
                  /\ ~IsNaN(f.X_filled[<<r, c>>])
                  /\ f.X_filled[<<r, c>>] \notin ObservedValues(f.X, c)

\* C7: on an input with no missing entry complete() raises nothing and
\* returns a matrix equal to the input in every cell.
C7_NoMissingUnchanged ==
    \A t \in DOMAIN frames :
        LET f == frames[t]
        IN  (f.op = "complete" /\ MissingCells(f.X) = {}) =>
                /\ f.pc # "error"
                /\ f.pc = "done" => f.result = f.X

\* complete() returned on an input with no missing entry, with bounds that
\* exclude some of its values
C7_Witness ==
    \E t \in DOMAIN frames :
        LET f == frames[t]
            cfg == engines[f.e].cfg
        IN  /\ InComplete(t, "done")
            /\ MissingCells(f.X) = {}
            /\ Len(f.hist) >= 1
            /\ cfg.min_value # None
            /\ \E cell \in Cells : RLt(f.X[cell], R(cfg.min_value[1]))

(***************************************************************************)
(* SpecRow: one engine; complete() as the first call or not at all, then   *)
(* complete_row() calls on the state it stored.                            *)
(***************************************************************************)
RowConfigs ==
    {Config("monotone", ni, nb, 2, it, Infty, "mean", range[1], range[2], None) :
        ni \in 0 .. MaxImputations, nb \in 0 .. MaxBurnIn,
        it \in {"col", "pmm"}, range \in ClipRanges}

\* the matrices complete() is given: at most one entry missing
RowMatrices == {X \in Inputs : Cardinality(MissingCells(X)) <= 1}

\* the rows complete_row() is given: of the matrices' width, one entry
\* short, and an array of two dimensions
RowVectors ==
    {[ndim |-> 1, v |-> v] : v \in [1 .. NCols -> {R(1), NaN}]}
    \cup {[ndim |-> 1, v |-> [k \in 1 .. (NCols - 1) |-> R(1)]],
          [ndim |-> 2, v |-> [k \in 1 .. NCols |-> R(1)]]}

RowSeeds == {None, Some(1)}

RowNew == \E cfg \in RowConfigs : New(1, cfg)
RowFit == frames[1].pc = "idle" /\ \E X \in RowMatrices : CompleteCall(1, 1, X)
RowStart ==
    \E X \in RowVectors, seed \in RowSeeds :
        \E fitted_models \in {NoArray, engines[1].fitted_models} :
            RowCall(1, 1, X, fitted_models, seed)

NextRow ==
    \/ RowNew
    \/ RowFit
    \/ BeginRound(1)
    \/ ImputeColumn(1)
    \/ EndRound(1)
    \/ Finish(1)
    \/ RowStart
    \/ RowColumn(1)
    \/ RowEndRound(1)
    \/ RowFinish(1)

SpecRow == Init /\ [][NextRow]_vars

\* v is a number of [min_value, max_value]
InBounds(cfg, v) ==
    /\ ~IsNaN(v)
    /\ RLe(R(cfg.min_value[1]), v)
    /\ RLe(v, R(cfg.max_value[1]))

\* the positions of the missing entries of the row of frame f
MissingPositions(f) == {k \in 1 .. Len(f.X.v) : IsNaN(f.X.v[k])}

\* the values in the missing cells at the end of every round so far, and of
\* the result once the call has returned, are within the bounds
WithinBounds(f, cfg) ==
    IF f.op = "complete"
    THEN /\ \A k \in 1 .. Len(f.hist) : \A cell \in MissingCells(f.X) :
               InBounds(cfg, f.hist[k][cell])
         /\ f.pc = "done" =>
               \A cell \in MissingCells(f.X) : InBounds(cfg, f.result[cell])
    ELSE /\ \A k \in 1 .. Len(f.hist) : \A j \in MissingPositions(f) :
               InBounds(cfg, f.hist[k][j])
         /\ f.pc = "done" =>
               \A j \in MissingPositions(f) : InBounds(cfg, f.result[j])

\* C6: with min_value = a and max_value = b set, every value in a missing
\* cell at the end of a round, every value complete_row sampled, and every
\* value at a missing position of the output of complete() and of
\* complete_row() lies in [a, b].
C6_ImputedWithinBounds ==
    \A t \in DOMAIN frames :
        LET f == frames[t]
            cfg == engines[f.e].cfg
        IN  (f.op \in {"complete", "complete_row"}
                /\ cfg.min_value # None /\ cfg.max_value # None) =>
                    WithinBounds(f, cfg)

\* the same for the engines that sample at least one round
WithinBoundsWhenSampled ==
    \A t \in DOMAIN frames :
        LET f == frames[t]
            cfg == engines[f.e].cfg
        IN  (f.op \in {"complete", "complete_row"} /\ cfg.n_imputations >= 1
                /\ cfg.min_value # None /\ cfg.max_value # None) =>
                    WithinBounds(f, cfg)

\* the row of frame f is one that the checks of complete_row let through
\* and that has no missing entry
FullRowCall(f) ==
    /\ f.op = "complete_row"
    /\ f.X.ndim = 1
    /\ MissingPositions(f) = {}
    /\ ~f.self0.fitted_models.none
    /\ HasColumns(f.self0.fitted_models)
    /\ Len(f.X.v) = NumColumns(f.self0.fitted_models)
    /\ f.self0.cfg.impute_type = "col"

\* the call of frame f has invoked no model, left the random stream where
\* it was, and left the engine and the models as they were
NoEffect(f) ==
    /\ f.invoked = 0
    /\ rng = f.rng0
    /\ engines[f.e] = f.self0
    /\ models = f.models0

\* C9: complete_row on a row with no missing entry, of the stored column
\* count, with stored models and impute_type 'col', returns the row as given,
\* invokes no model, neither reseeds nor draws from the random stream, and
\* changes no stored state.
C9_FullRowReturned ==
    \A t \in DOMAIN frames :
        LET f == frames[t]
        IN  FullRowCall(f) =>
                /\ f.pc = "done"
                /\ f.result = f.X.v
                /\ NoEffect(f)

\* such a call returned on an engine whose models are fitted, with a seed
\* argument that differs from the state of the stream
C9_Witness ==
    \E t \in DOMAIN frames :
        LET f == frames[t]
        IN  /\ FullRowCall(f)
            /\ f.pc = "done"
            /\ models[DefaultModel].fitted
            /\ TotalRounds(f.self0.cfg) >= 1
            /\ rng # RngSeed(1)

\* C10: complete_row on an engine whose impute_type is 'pmm' ends in an
\* error for every row, with no model invoked, the random stream neither
\* reseeded nor drawn from, and no stored state changed.
C10_PmmRowRejected ==
    \A t \in DOMAIN frames :
        LET f == frames[t]
        IN  (f.op = "complete_row" /\ f.self0.cfg.impute_type = "pmm") =>
                /\ f.pc = "error"
                /\ NoEffect(f)

\* a row of the stored column count with a missing entry was rejected for
\* the impute type alone, on an engine that complete() had fitted
C10_Witness ==
    \E t \in DOMAIN frames :
        LET f == frames[t]
        IN  /\ f.op = "complete_row" /\ f.self0.cfg.impute_type = "pmm"
            /\ f.pc = "error" /\ f.err = "Exception:impute_type"
            /\ MissingPositions(f) # {}
            /\ models[DefaultModel].fitted
            /\ rng # RngSeed(1)

(***************************************************************************)
(* SpecSeed: two engines constructed with a seed, and up to MaxCalls       *)
(* complete() calls on them from one thread, in any order.                 *)
(***************************************************************************)
SeedEngines == {1, 2}

SeedConfigs ==
    {Config("roman", 1, 0, 2, "col", Infty, "mean", None, None, Some(seed)) :
        seed \in {0, 1}}

\* one entry of column 0 missing
SeedMatrices ==
    {X \in Inputs : \E r \in Rows : MissingCells(X) = {<<r, 0>>}}

InitSeed == InitWith(SeedEngines, {1})

\* the one thread constructs an engine between its calls
SeedNew ==
    Returned(1) /\ \E e \in SeedEngines, cfg \in SeedConfigs : New(e, cfg)
SeedComplete ==
    \E e \in SeedEngines, X \in SeedMatrices : CompleteCall(1, e, X)

NextSeed ==
    \/ SeedNew
    \/ SeedComplete
    \/ BeginRound(1)
    \/ ImputeColumn(1)
    \/ EndRound(1)
    \/ Finish(1)

SpecSeed == InitSeed /\ [][NextSeed]_vars

\* two returned complete() calls on the same input by engines of the same
\* seeded configuration
SameSeededRun(a, b) ==
    /\ a.cfg = b.cfg
    /\ a.cfg.seed # None
    /\ a.X = b.X

\* C4 as claimed: any two complete() calls on the same input by engines of
\* the same seed and configuration return identical matrices, be they calls
\* on two engines or successive calls on one, whatever drew from the random
\* stream between construction and the call.
C4_SameSeedSameOutput ==
    \A a \in log : \A b \in log : SameSeededRun(a, b) => a.out = b.out

\* C4 as amended: two such calls return identical matrices when each is the
\* first call after the construction of its engine, with nothing drawing
\* from or reseeding the random stream in between.
C4_FreshSeedSameOutput ==
    \A a \in log : \A b \in log :
        (SameSeededRun(a, b) /\ a.fresh /\ b.fresh) => a.out = b.out

\* two engines of the same seed and configuration each completed the same
\* input right after construction, the second after the first had drawn
\* from the stream
C4_Witness ==
    \E a \in log : \E b \in log :
        /\ SameSeededRun(a, b) /\ a.fresh /\ b.fresh
        /\ a.e # b.e /\ a.n < b.n
        /\ a.out = b.out

(***************************************************************************)
(* SpecMulti: one engine; multiple_imputations() called directly, on the   *)
(* fresh engine or after a complete() call.                                *)
(***************************************************************************)
MultiConfigs ==
    {Config(vs, ni, nb, 2, "col", Infty, "mean", None, None, None) :
        vs \in {"roman", "monotone"},
        ni \in 0 .. MaxImputations, nb \in 0 .. MaxBurnIn}

\* at most one entry missing
MultiMatrices ==
    {X \in Inputs : Cardinality(MissingCells(X)) <= 1 /\ X[<<0, 1>>] # R(0)}

MultiNew == \E cfg \in MultiConfigs : New(1, cfg)
MultiComplete ==
    frames[1].pc = "idle" /\ \E X \in MultiMatrices : CompleteCall(1, 1, X)
MultiCall == \E X \in MultiMatrices : MultipleImputationsCall(1, 1, X)

NextMulti ==
    \/ MultiNew
    \/ MultiComplete
    \/ MultiCall
    \/ BeginRound(1)
    \/ ImputeColumn(1)
    \/ EndRound(1)
    \/ Finish(1)
    \/ MultipleImputationsReturn(1)

SpecMulti == Init /\ [][NextMulti]_vars

\* what a returned multiple_imputations call of frame f handed back:
\* n_imputations snapshots of one value per missing cell, and the mask of X
SnapshotsOf(f) ==
    /\ Len(f.result.imputed_arrays) = engines[f.e].cfg.n_imputations
    /\ \A k \in 1 .. Len(f.result.imputed_arrays) :
          Len(f.result.imputed_arrays[k]) = Cardinality(MissingCells(f.X))
    /\ f.result.missing_mask = IsNanMask(f.X)

\* C11: multiple_imputations(X) on any engine, one on which complete() has
\* never run included, raises nothing on a valid input and returns exactly
\* n_imputations snapshots of one value per missing cell with the mask of X.
C11_SnapshotsReturned ==
    \A t \in DOMAIN frames :
        LET f == frames[t]
        IN  f.op = "multiple_imputations" =>
                /\ f.pc # "error"
                /\ f.pc = "done" => SnapshotsOf(f)

\* the same for the calls made once complete() has stored its model slots
SnapshotsReturnedOnceStored ==
    \A t \in DOMAIN frames :
        LET f == frames[t]
        IN  (f.op = "multiple_imputations" /\ ~f.self0.fitted_models.none) =>
                /\ f.pc # "error"
                /\ f.pc = "done" => SnapshotsOf(f)

(***************************************************************************)
(* The stored models of a training run, under Spec.                        *)
(***************************************************************************)
\* the model state that slot (m, c) of engine self gives access to now
StoredFit(self, slot) == models[self.fitted_models.v[slot]]

\* C12: during and after a complete() run every slot (m, c) that a round
\* has written holds the model as it was fitted at round m on column c; no
\* later fit changes it.
C12_SlotHoldsItsFit ==
    \A t \in DOMAIN frames :
        LET f == frames[t]
            self == engines[f.e]
        IN  (f.op = "complete" /\ f.pc \in {"rounds", "done"}) =>
                \A slot \in Slots :
                    self.fit_log[slot].assigned =>
                        StoredFit(self, slot) = self.fit_log[slot].fit

(***************************************************************************)
(* SpecConc: one engine trained by one complete() call, then two threads   *)
(* that each complete a row of their own with the same fixed seed, their   *)
(* steps interleaved in any order.                                         *)
(***************************************************************************)
ConcThreads == {1, 2}

ConcConfigs ==
    {Config("roman", ni, nb, 2, "col", Infty, "mean", None, None, None) :
        ni \in 1 .. MaxImputations, nb \in 0 .. MaxBurnIn}

\* the training matrix: an entry missing in every column
ConcMatrices ==
    {X \in Inputs : \A c \in Cols : \E r \in Rows : IsNaN(X[<<r, c>>])}

\* the row of thread t: the entry of column t - 1 missing
ConcRow(t) ==
    [ndim |-> 1, v |-> [k \in 1 .. NCols |-> IF k = t THEN NaN ELSE R(1)]]

ConcSeed == Some(1)

InitConc == InitWith({1}, ConcThreads)

ConcNew == \E cfg \in ConcConfigs : New(1, cfg)
\* the training run, before any row is completed
ConcFit ==
    /\ \A t \in ConcThreads : frames[t].pc = "idle"
    /\ \E X \in ConcMatrices : CompleteCall(1, 1, X)
\* each thread completes its row once, after the training run has returned
ConcRowCall ==
    /\ frames[1].ncalls >= 1
    /\ frames[1].op = "complete" => frames[1].pc = "done"
    /\ \E t \in ConcThreads :
          /\ frames[t].op # "complete_row"
          /\ RowCall(t, 1, ConcRow(t), NoArray, ConcSeed)

NextConc ==
    \/ ConcNew
    \/ ConcFit
    \/ BeginRound(1)
    \/ ImputeColumn(1)
    \/ EndRound(1)
    \/ Finish(1)
    \/ ConcRowCall
    \/ \E t \in ConcThreads : RowColumn(t)
    \/ \E t \in ConcThreads : RowEndRound(t)
    \/ \E t \in ConcThreads : RowFinish(t)

SpecConc == InitConc /\ [][NextConc]_vars

RECURSIVE RowRoundsAlone(_, _, _, _, _, _, _, _)
\* the snapshots complete_row keeps when nothing else runs: rounds m.. of
\* the replay, from position i of the visit order, on the row X_filled with
\* the stream in state s
RowRoundsAlone(self, mods, missing_mask, X_filled, m, i, s, results_list) ==
    IF m >= TotalRounds(self.cfg) THEN results_list
    ELSE IF i > Len(self.visit_indices)
    THEN RowRoundsAlone(self, mods, missing_mask, X_filled, m + 1, 1, s,
                        IF KeepSample(self.cfg, m)
                        THEN Append(results_list, MaskedRow(X_filled, missing_mask))
                        ELSE results_list)
    ELSE LET col_idx == self.visit_indices[i]
             others == SeqOfSet((0 .. (Len(X_filled) - 1)) \ {col_idx})
             X_other_cols == [j \in 1 .. Len(others) |-> X_filled[others[j] + 1]]
             imp == ImputeCol(mods[self.fitted_models.v[<<m, col_idx>>]],
                              <<X_other_cols>>, s)
         IN  IF ~missing_mask[col_idx + 1]
             THEN RowRoundsAlone(self, mods, missing_mask, X_filled, m, i + 1, s,
                                 results_list)
             ELSE RowRoundsAlone(self, mods, missing_mask,
                                 [X_filled EXCEPT ![col_idx + 1] =
                                     clip(self.cfg, imp.values[1])],
                                 m, i + 1, imp.rng, results_list)

\* what complete_row(X, seed=seed) returns on engine self with the models
\* mods when it runs alone
RowAlone(self, mods, X, seed) ==
    LET missing_mask == RowMissingMask(X.v)
    IN  RowAggregate(X.v, missing_mask,
            RowRoundsAlone(self, mods, missing_mask,
                           RowInitialize(self, X.v, missing_mask),
                           0, 1, RngSeed(seed[1]), <<>>))

\* C13: complete_row calls on different rows against the same stored models
\* with a fixed seed, interleaved in any order, each return what the call
\* returns when it runs alone.
C13_InterleavedAsAlone ==
    \A t \in DOMAIN frames :
        LET f == frames[t]
        IN  (f.op = "complete_row" /\ f.pc = "done") =>
                f.result = RowAlone(f.self0, f.models0, f.X, ConcSeed)

\* the same for a call during which no other thread was completing a row
AloneAsAlone ==
    \A t \in DOMAIN frames :
        LET f == frames[t]
        IN  (/\ f.op = "complete_row" /\ f.pc = "done"
             /\ \A u \in DOMAIN frames \ {t} : frames[u].op # "complete_row") =>
                f.result = RowAlone(f.self0, f.models0, f.X, ConcSeed)

(***************************************************************************)
(* SpecConfig: one engine and one complete() call, over the recognised and *)
(* unrecognised names of the visit sequence, the impute type and the       *)
(* initial fill method.                                                    *)
(***************************************************************************)
ImputeTypes == {"col", "pmm"}
FillMethods == {"mean", "median", "random"}

NamedConfigs ==
    {Config(vs, 1, nb, 2, it, Infty, fm, None, None, None) :
        vs \in {"roman", "unknown"}, nb \in 0 .. MaxBurnIn,
        it \in {"col", "unknown"}, fm \in FillMethods \cup {"unknown"}}

ConfigNew == \E cfg \in NamedConfigs : New(1, cfg)
ConfigComplete == frames[1].pc = "idle" /\ \E X \in Inputs : CompleteCall(1, 1, X)

NextConfig ==
    \/ ConfigNew
    \/ ConfigComplete
    \/ BeginRound(1)
    \/ ImputeColumn(1)
    \/ EndRound(1)
    \/ Finish(1)

SpecConfig == Init /\ [][NextConfig]_vars

\* a name of the configuration is not one the engine recognises
Unrecognised(cfg) ==
    \/ cfg.visit_sequence \notin VisitSequences
    \/ cfg.impute_type \notin ImputeTypes
    \/ cfg.fill_method \notin FillMethods

\* the call of frame f has fitted no model, written no model slot and
\* resampled no column
NothingFitted(f) ==
    /\ f.invoked = 0
    /\ f.events = <<>>
    /\ models = f.models0
    /\ \A slot \in Slots : ~engines[f.e].fit_log[slot].assigned

\* C14: a complete() call configured with an unrecognised visit_sequence,
\* impute_type or init_fill_method never returns a matrix, and fits no
\* model, writes no model slot and resamples no column before its error.
C14_RejectedBeforeRounds ==
    \A t \in DOMAIN frames :
        LET f == frames[t]
        IN  (f.op = "complete" /\ Unrecognised(engines[f.e].cfg)) =>
                /\ f.pc # "done"
                /\ NothingFitted(f)

\* the same for the unrecognised visit sequences alone, which end in an
\* error at once
UnknownVisitRejected ==
    \A t \in DOMAIN frames :
        LET f == frames[t]
        IN  (f.op = "complete"
                /\ engines[f.e].cfg.visit_sequence \notin VisitSequences) =>
                    /\ f.pc = "error"
                    /\ NothingFitted(f)

\* the values the fill method may seed a missing cell of column c with
FillCandidates(cfg, X, c) ==
    LET observed_rows == RowsWhere(IsNanMask(X), c, FALSE)
        observed_column == [k \in 1 .. Len(observed_rows) |-> X[<<observed_rows[k], c>>]]
    IN  CASE cfg.fill_method = "mean" -> {RMean(observed_column)}
          [] cfg.fill_method = "median" -> {RMedian(observed_column)}
          [] OTHER -> Range(observed_column)

\* C18: for each of the fill methods mean, median and random and every
\* input with an observed entry in every row and column, the initial fill
\* raises nothing, seeds every missing cell with a value computed from the
\* observed values of its column, and records that value as the column's
\* entry of column_init_values.
C18_InitialFillCompletes ==
    \A t \in DOMAIN frames :
        LET f == frames[t]
            self == engines[f.e]
        IN  (/\ f.op = "complete"
             /\ self.cfg.fill_method \in FillMethods
             /\ self.cfg.visit_sequence \in VisitSequences
             /\ check_missing_value_mask(IsNanMask(f.X))) =>
                /\ f.pc = "error" => f.err \notin {"ValueError:sequence",
                                                   "ValueError:fill_method"}
                /\ f.pc \in {"rounds", "done"} =>
                      \A cell \in MissingCells(f.X) :
                          /\ f.X0[cell] \in FillCandidates(self.cfg, f.X, cell[2])
                          /\ self.column_init_values.v[cell[2]] = f.X0[cell]

\* the same for the inputs with at most one missing entry in each column
FillCompletesOneMissing ==
    \A t \in DOMAIN frames :
        LET f == frames[t]
            self == engines[f.e]
        IN  (/\ f.op = "complete"
             /\ self.cfg.fill_method \in FillMethods
             /\ self.cfg.visit_sequence \in VisitSequences
             /\ check_missing_value_mask(IsNanMask(f.X))
             /\ \A c \in Cols : Len(RowsWhere(IsNanMask(f.X), c, TRUE)) <= 1) =>
                /\ f.pc = "error" => f.err \notin {"ValueError:sequence",
                                                   "ValueError:fill_method"}
                /\ f.pc \in {"rounds", "done"} =>
                      \A cell \in MissingCells(f.X) :
                          /\ f.X0[cell] \in FillCandidates(self.cfg, f.X, cell[2])
                          /\ self.column_init_values.v[cell[2]] = f.X0[cell]

(***************************************************************************)
(* The order of the fits of a complete() run, under Spec.                  *)
(***************************************************************************)
HasMissing(f, c) == \E r \in Rows : f.missing_mask[<<r, c>>]

RECURSIVE FitsUpTo(_, _, _)
\* the (round, column) pairs of round m for the first k positions of the
\* visit order: the columns with missing data, in that order
FitsUpTo(f, m, k) ==
    IF k = 0 THEN <<>>
    ELSE FitsUpTo(f, m, k - 1) \o
         (IF HasMissing(f, f.visit_indices[k])
          THEN << <<m, f.visit_indices[k]>> >> ELSE <<>>)

RECURSIVE FitsOfRounds(_, _)
\* the same for all the rounds before round m
FitsOfRounds(f, m) ==
    IF m = 0 THEN <<>>
    ELSE FitsOfRounds(f, m - 1) \o FitsUpTo(f, m - 1, Len(f.visit_indices))

\* the fits due by the position the run of frame f is at
ExpectedFits(f) ==
    FitsOfRounds(f, f.m) \o FitsUpTo(f, f.m, IF f.i = 0 THEN 0 ELSE f.i - 1)

\* the matrix as round m left it, or as it stands while round m runs; a
\* column is written once a round, so this holds what round m wrote
RoundMatrix(f, m) == IF m < Len(f.hist) THEN f.hist[m + 1] ELSE f.X_filled

\* the value of cell (r, p) a fit must read as its k-th event: what this
\* round wrote if it has visited p already, else what the previous round
\* left, else the initial fill
CurrentValue(f, k, r, p) ==
    LET m == f.events[k].m
        earlier == {j \in 1 .. (k - 1) : f.events[j].m = m /\ f.events[j].col = p}
    IN  IF earlier # {} THEN RoundMatrix(f, m)[<<r, p>>]
        ELSE IF m >= 1 THEN f.hist[m][<<r, p>>]
        ELSE f.X0[<<r, p>>]

\* C15: a complete() run executes its rounds in sequence, n_burn_in +
\* n_imputations of them when it returns; in each round the columns with
\* missing data are fitted and resampled once each in visit order and no
\* other column is; and each fit reads, for every predictor column, the
\* value this round wrote if the column precedes it in the visit order and
\* the value the previous round (or the initial fill) left otherwise.
C15_RoundsInVisitOrder ==
    \A t \in DOMAIN frames :
        LET f == frames[t]
            cfg == engines[f.e].cfg
        IN  (f.op = "complete" /\ f.pc \in {"rounds", "done", "error"}
                /\ f.visit_indices # <<>>) =>
                /\ Len(f.hist) = f.m
                /\ f.pc = "done" => f.m = TotalRounds(cfg)
                /\ [k \in 1 .. Len(f.events) |-> <<f.events[k].m, f.events[k].col>>]
                      = ExpectedFits(f)
                /\ \A k \in 1 .. Len(f.events) : \A r \in Rows :
                      \A p \in Cols \ {f.events[k].col} :
                          f.events[k].before[<<r, p>>] = CurrentValue(f, k, r, p)

\* a run of two rounds or more returned in which a fit of the last round
\* read, for a predictor column, a value written earlier in that round that
\* differs from the value the round before had left
C15_Witness ==
    \E t \in DOMAIN frames :
        LET f == frames[t]
        IN  /\ InComplete(t, "done")
            /\ f.m >= 2
            /\ \E k \in 1 .. Len(f.events) : \E r \in Rows :
                  \E p \in Cols \ {f.events[k].col} :
                      /\ f.events[k].m = f.m - 1
                      /\ \E j \in 1 .. (k - 1) :
                            f.events[j].m = f.events[k].m /\ f.events[j].col = p
                      /\ f.events[k].before[<<r, p>>] # f.hist[f.m - 1][<<r, p>>]

(***************************************************************************)
(* SpecNear: one engine built with any n_nearest_columns, complete() as    *)
(* its first call, then complete_row() calls on the state it stored.       *)
(***************************************************************************)
\* the values of n_nearest_columns: fewer columns than the data has, or the
\* default
NearestCounts == (0 .. (NCols - 1)) \cup {Infty}

NearConfigs ==
    {Config("roman", ni, nb, 2, "col", n, "mean", None, None, None) :
        ni \in 1 .. MaxImputations, nb \in 0 .. MaxBurnIn, n \in NearestCounts}

\* the rows complete_row() is given: of the matrices' width
NearVectors == {[ndim |-> 1, v |-> v] : v \in [1 .. NCols -> {R(1), NaN}]}

NearNew == \E cfg \in NearConfigs : New(1, cfg)
NearFit == frames[1].pc = "idle" /\ \E X \in Inputs : CompleteCall(1, 1, X)
NearStart ==
    \E X \in NearVectors :
        RowCall(1, 1, X, engines[1].fitted_models, Some(1))

NextNear ==
    \/ NearNew
    \/ NearFit
    \/ BeginRound(1)
    \/ ImputeColumn(1)
    \/ EndRound(1)
    \/ Finish(1)
    \/ NearStart
    \/ RowColumn(1)
    \/ RowEndRound(1)
    \/ RowFinish(1)

SpecNear == Init /\ [][NextNear]_vars

\* C16: in complete_row, the predictor columns handed to the stored model
\* of (round m, column c) are the columns that model was fitted on at
\* (m, c), whatever n_nearest_columns is.
C16_RowPredictorsAsFitted ==
    \A t \in DOMAIN frames :
        LET f == frames[t]
        IN  f.op = "complete_row" =>
                \A read \in f.reads :
                    LET fitted == engines[f.e].fit_log[read.slot]
                    IN  fitted.assigned => Range(read.cols) = Range(fitted.cols)

\* what holds: with n_nearest_columns at its default the two sets agree
RowPredictorsAsFittedByDefault ==
    \A t \in DOMAIN frames :
        LET f == frames[t]
        IN  (f.op = "complete_row" /\ NCols <= engines[f.e].cfg.n_nearest_columns) =>
                \A read \in f.reads :
                    LET fitted == engines[f.e].fit_log[read.slot]
                    IN  fitted.assigned => Range(read.cols) = Range(fitted.cols)

\* the predictor set the documentation gives column c under cfg
IsPredictorSet(cfg, c, cols) ==
    IF NCols <= cfg.n_nearest_columns
    THEN Range(cols) = Cols \ {c} /\ Len(cols) = NCols - 1
    ELSE /\ Len(cols) = cfg.n_nearest_columns
         /\ Cardinality(Range(cols)) = Len(cols)
         /\ Range(cols) \subseteq Cols \ {c}

\* C20: every column fitted in a round gets its predictor set: all the other
\* columns when n_cols <= n_nearest_columns, else exactly n_nearest_columns
\* distinct columns other than itself; the selection never fails.
C20_PredictorSetChosen ==
    \A t \in DOMAIN frames :
        LET f == frames[t]
            self == engines[f.e]
        IN  f.op = "complete" =>
                /\ f.err # "ValueError:probabilities"
                /\ \A slot \in Slots :
                      self.fit_log[slot].assigned =>
                          IsPredictorSet(self.cfg, slot[2], self.fit_log[slot].cols)

\* what holds: the sets that are chosen are as documented
PredictorSetWhenChosen ==
    \A t \in DOMAIN frames :
        LET f == frames[t]
            self == engines[f.e]
        IN  f.op = "complete" =>
                \A slot \in Slots :
                    self.fit_log[slot].assigned =>
                        IsPredictorSet(self.cfg, slot[2], self.fit_log[slot].cols)

(***************************************************************************)
(* The slots complete_row() reads, under SpecRow.                          *)
(***************************************************************************)
\* C17: complete_row never reads a stored-model slot that no fit was
\* assigned to: for every missing column c of the row and every round m,
\* column c was fitted in round m of the training run.
C17_RowReadsFittedSlots ==
    \A t \in DOMAIN frames :
        LET f == frames[t]
        IN  f.op = "complete_row" =>
                \A read \in f.reads : engines[f.e].fit_log[read.slot].assigned

\* what holds: the slots of the columns that had missing data in training
\* were assigned a fit in every round
TrainedSlotsAssigned ==
    \A t \in DOMAIN frames :
        LET f == frames[t]
            self == engines[f.e]
        IN  InComplete(t, "done") =>
                \A slot \in Slots :
                    (slot[1] < TotalRounds(self.cfg) /\ HasMissing(f, slot[2]))
                        <=> self.fit_log[slot].assigned

(***************************************************************************)
(* The donors of predictive mean matching, under Spec.                     *)
(***************************************************************************)
\* the number of observed entries of column c
NumObserved(f, c) == Cardinality({r \in Rows : ~f.missing_mask[<<r, c>>]})

\* C19: under "pmm" with n_pmm_neighbors >= 1, for every column with a
\* missing entry and at least one observed entry (exactly one included) the
\* donor set is never empty and the round completes.
C19_PmmDonorSetNonEmpty ==
    \A t \in DOMAIN frames :
        LET f == frames[t]
            cfg == engines[f.e].cfg
        IN  (f.op = "complete" /\ cfg.impute_type = "pmm"
                /\ cfg.n_pmm_neighbors >= 1) =>
                f.err # "ValueError:choice"

\* what holds: the donor set is empty only for a column with one observed
\* entry
PmmDonorSetEmptyOnlyForOneObserved ==
    \A t \in DOMAIN frames :
        LET f == frames[t]
            cfg == engines[f.e].cfg
        IN  (f.op = "complete" /\ f.err = "ValueError:choice") =>
                /\ cfg.impute_type = "pmm"
                /\ NumObserved(f, f.visit_indices[f.i]) = 1

(***************************************************************************)
(* The matrix the selection weights come from, under SpecCap.              *)
(***************************************************************************)
\* SpecCap: the complete() calls of SpecNear alone
NextCap ==
    \/ NearNew
    \/ NearFit
    \/ BeginRound(1)
    \/ ImputeColumn(1)
    \/ EndRound(1)
    \/ Finish(1)

SpecCap == Init /\ [][NextCap]_vars

\* the weights of the candidates of column c over the matrix X
WeightsOver(X, c) == [p \in Cols |-> CorrSquared(X, c, p)]

\* the fits of frame f made with the neighbor cap applying
CappedEvents(f) ==
    {k \in 1 .. Len(f.events) : NCols > engines[f.e].cfg.n_nearest_columns}

\* C21 as stated: when the neighbor cap applies, the weights used for column
\* c at its visit in round r are computed from the working matrix as it
\* stands at that visit, the values written in round r to the columns
\* visited before c included.
C21_WeightsFromCurrentMatrix ==
    \A t \in DOMAIN frames :
        LET f == frames[t]
        IN  f.op = "complete" =>
                \A k \in CappedEvents(f) :
                    WeightsOver(f.events[k].corr, f.events[k].col)
                        = WeightsOver(f.events[k].before, f.events[k].col)

\* C21 amended: when the neighbor cap applies, the weights used for column c
\* at its visit in round r are computed from the working matrix as it stood
\* when round r began: the initial fill in round 0, else what round r - 1
\* left; the values written in round r are not reflected.  Stated of the
\* latest fit of a run in every state, which covers every fit.
C21_WeightsFromRoundStart ==
    \A t \in DOMAIN frames :
        LET f == frames[t]
            k == Len(f.events)
        IN  (f.op = "complete" /\ k \in CappedEvents(f)) =>
                WeightsOver(f.events[k].corr, f.events[k].col)
                    = WeightsOver(IF f.events[k].m = 0 THEN f.X0
                                  ELSE f.hist[f.events[k].m],
                                  f.events[k].col)

\* a fit made under the cap, after another column was written in the same
\* round, for which the weights over the matrix at the visit differ from the
\* weights over the matrix at the start of the round
C21_Witness ==
    \E t \in DOMAIN frames :
        LET f == frames[t]
        IN  /\ f.op = "complete"
            /\ \E k \in CappedEvents(f) :
                  /\ \E j \in 1 .. (k - 1) : f.events[j].m = f.events[k].m
                  /\ WeightsOver(f.events[k].before, f.events[k].col)
                        # WeightsOver(IF f.events[k].m = 0 THEN f.X0
                                      ELSE f.hist[f.events[k].m],
                                      f.events[k].col)

(***************************************************************************)
(* SpecStore: one engine and a sequence of complete() calls on it, some of *)
(* them rejected before the rounds and some failing in a round.            *)
(***************************************************************************)
StoreConfigs ==
    {Config("roman", 1, nb, 2, it, Infty, "mean", None, None, None) :
        nb \in 0 .. MaxBurnIn, it \in {"col", "pmm"}}

\* the matrices of MultiMatrices with up to MaxMissing entries missing
StoreMatrices == {X \in Inputs : X[<<0, 1>>] # R(0)}

StoreNew == \E cfg \in StoreConfigs : New(1, cfg)
StoreComplete == \E X \in StoreMatrices : CompleteCall(1, 1, X)

NextStore ==
    \/ StoreNew
    \/ StoreComplete
    \/ BeginRound(1)
    \/ ImputeColumn(1)
    \/ EndRound(1)
    \/ Finish(1)

SpecStore == Init /\ [][NextStore]_vars

\* what complete_row uses of an engine: the stored models with the state of
\* the model objects they refer to, the visit order and the initial values
StoredState(self, mods) ==
    [fitted_models |-> IF self.fitted_models.none THEN NoArray
                       ELSE Array([slot \in DOMAIN self.fitted_models.v |->
                                      mods[self.fitted_models.v[slot]]]),
     visit_indices |-> self.visit_indices,
     column_init_values |-> self.column_init_values]

\* C22: after any sequence of complete() calls, aborted ones included, the
\* stored state complete_row uses is of one piece: the stored models, the
\* visit order and the initial column values are all absent or all present,
\* and a complete() call that ended in an error has left the stored state
\* as it was when the call began.
C22_StoredStateConsistent ==
    \A t \in DOMAIN frames :
        LET f == frames[t]
            self == engines[f.e]
        IN  (f.op = "complete" /\ Returned(t)) =>
                /\ self.fitted_models.none = (self.visit_indices = None)
                /\ self.fitted_models.none = self.column_init_values.none
                /\ f.pc = "error" =>
                      StoredState(self, models) = StoredState(f.self0, f.models0)

\* what holds: after a complete() call that returned, the three parts are
\* present and are those of that call
StoredStateAfterReturn ==
    \A t \in DOMAIN frames :
        LET f == frames[t]
            self == engines[f.e]
        IN  InComplete(t, "done") =>
                /\ ~self.fitted_models.none
                /\ ~self.column_init_values.none
                /\ self.visit_indices = f.visit_indices
                /\ DOMAIN self.fitted_models.v
                      = (0 .. (TotalRounds(self.cfg) - 1)) \X Cols

====
